---- MODULE Spec2Model ----
(***************************************************************************)
(* Model of prep_data/tabular_data/train_featurize_train_tabular_data.ipynb *)
(* The notebook is a straight-line program: one action per code cell (or    *)
(* per statement where a cell does several things), sequenced by pc.        *)
(*                                                                          *)
(* A pandas DataFrame is a record                                           *)
(*     [columns : Seq(name), index : Seq(row label), rows : Seq(Seq(value))]*)
(* where rows[k] holds the values of the row labelled index[k].             *)
(* Real-valued scores are kept in hundredths (0.01 is 1, 0.5 is 50).        *)
(***************************************************************************)
EXTENDS Integers, Sequences, FiniteSets, TLC

VARIABLES pc, err, choosen_data_set, n_source_rows,
          test_fraction, validation_fraction,
          X, Y, X_train, X_val, X_test, Y_train, Y_val, Y_test,
          X_data, y_label,
          feature_importances_xgboost, feature_importances_permutations,
          ranked_lst, features_to_remove, returned,
          files, uploads,
          model_selected, container, model, downloaded,
          dpc, login, clone, smddp_examples, build_saw_login, fit_saw_clone,
          estimator

vars == <<pc, err, choosen_data_set, n_source_rows,
          test_fraction, validation_fraction,
          X, Y, X_train, X_val, X_test, Y_train, Y_val, Y_test,
          X_data, y_label,
          feature_importances_xgboost, feature_importances_permutations,
          ranked_lst, features_to_remove, returned,
          files, uploads,
          model_selected, container, model, downloaded,
          dpc, login, clone, smddp_examples, build_saw_login, fit_saw_clone,
          estimator>>

cfgVars   == <<choosen_data_set, n_source_rows, test_fraction, validation_fraction>>
rawVars   == <<X, Y>>
splitVars == <<X_train, X_val, X_test, Y_train, Y_val, Y_test>>
scoreVars == <<X_data, y_label,
               feature_importances_xgboost, feature_importances_permutations>>
pruneVars == <<features_to_remove, returned>>
outVars   == <<files, uploads>>
trainVars == <<model_selected, container, model, downloaded>>

\* State of the tabular notebook and state of the distributed-training
\* notebook: the two notebooks share nothing.
tabularVars == <<pc, err, cfgVars, rawVars, splitVars, scoreVars, ranked_lst,
                 pruneVars, outVars, trainVars>>
distVars    == <<dpc, login, clone, smddp_examples, build_saw_login,
                 fit_saw_clone, estimator>>

(* ---------------------------- bounds ---------------------------------- *)

\* Largest number of rows the data source delivers.
MaxRows == 4

\* Largest number of rows the data source delivers when the notebook is run
\* through its training part.
MaxPipelineRows == 3

(* ------------------------- program constants -------------------------- *)

\* data_sets = {"diabetes": ..., "california": ...}
data_sets == {"diabetes", "california"}

\* Values the user may assign to choosen_data_set (one is not a key).
DataSetChoices == data_sets \cup {"iris"}

\* test_size=0.33, in hundredths.
test_size == 33

\* Values the test_size argument of a split may be given, in hundredths: the
\* notebook's 0.33, another fraction inside (0, 1), and the two ends of the
\* interval, which are outside it.
FractionChoices == {0, test_size, 50, 100}

\* threshold = 0.01, in hundredths.
threshold == 1

\* Importance scores an external scorer may report, in hundredths.
ScoreValues == {0, 1, 50}

\* Scores the permutation scorer may report (they can be negative).
PermutationScoreValues == {-5, 20}

NoFrame == [columns |-> <<>>, index |-> <<>>, rows |-> <<>>]

None == [kind |-> "None"]

\* models = ["xgboost", "linear-learner"]
models == {"xgboost", "linear-learner"}

\* Values the user may assign to model_selected (one is not in models).
ModelChoices == models \cup {"knn"}

\* No estimator object yet.
NoModel == [kind |-> "None"]

\* An estimator that has not been fitted has no training job.
NoJob == [status |-> "none"]

\* Outcomes of a training job the service ran to its end.
JobOutcomes == {"Completed", "Failed"}

(* ------------------------------ helpers ------------------------------- *)

Range(s) == {s[i] : i \in DOMAIN s}

\* df.shape = (number of rows, number of columns)
Shape(df) == <<Len(df.index), Len(df.columns)>>

\* The loaders' feature_names (the first columns of each real dataset).
feature_names(name) ==
    IF name = "california" THEN <<"MedInc", "HouseAge", "AveRooms">>
    ELSE <<"age", "sex">>

\* data_set.data: row i, column j.  Every cell of a dataset is distinct, so
\* that a row or a column that moves is visible.
data_value(name, i, j) ==
    (IF name = "california" THEN 100 ELSE 200) + 10 * i + j

\* data_set.target: label of row i (distinct per row).
target_value(name, i) ==
    (IF name = "california" THEN 500 ELSE 600) + i

\* X = pd.DataFrame(data_set.data, columns=data_set.feature_names)
LoadX(name, n) ==
    [columns |-> feature_names(name),
     index   |-> [i \in 1..n |-> i - 1],
     rows    |-> [i \in 1..n |->
                    [j \in 1..Len(feature_names(name)) |-> data_value(name, i, j)]]]

\* Y = pd.DataFrame(data_set.target)
LoadY(name, n) ==
    [columns |-> <<0>>,
     index   |-> [i \in 1..n |-> i - 1],
     rows    |-> [i \in 1..n |-> <<target_value(name, i)>>]]

(* --------------------------- Init ------------------------------------- *)

\* The distributed-training notebook before its first cell.  ./SMDDP-Examples
\* may be left over from an earlier run of the notebook.
DistBlank ==
    /\ dpc = "login"
    /\ login = "not_started"
    /\ clone = "not_started"
    /\ smddp_examples \in {"absent", "complete"}
    /\ build_saw_login = "none"
    /\ fit_saw_clone = "none"
    /\ estimator = NoModel

\* No cell of the training part has run.
TrainBlank ==
    /\ model_selected = "none"
    /\ container = "none"
    /\ model = NoModel
    /\ downloaded = "none"

\* No cell of the tabular notebook has computed anything yet.
TabularBlank ==
    /\ TrainBlank
    /\ err = "none"
    /\ X = NoFrame /\ Y = NoFrame
    /\ X_train = NoFrame /\ X_val = NoFrame /\ X_test = NoFrame
    /\ Y_train = NoFrame /\ Y_val = NoFrame /\ Y_test = NoFrame
    /\ X_data = <<>> /\ y_label = <<>>
    /\ feature_importances_xgboost = <<>>
    /\ feature_importances_permutations = <<>>
    /\ ranked_lst = <<>>
    /\ features_to_remove = <<>>
    /\ returned = <<>>
    /\ files = [f \in {} |-> <<>>]
    /\ uploads = <<>>

\* The distributed-training notebook is not being run.
DistIdle ==
    /\ dpc = "login"
    /\ login = "not_started"
    /\ clone = "not_started"
    /\ smddp_examples = "absent"
    /\ build_saw_login = "none"
    /\ fit_saw_clone = "none"
    /\ estimator = NoModel

\* Nothing has been computed yet.
Blank ==
    /\ TabularBlank
    /\ DistIdle

\* The distributed-training notebook about to be run; the tabular notebook is
\* not being run.
InitDist ==
    /\ DistBlank
    /\ TabularBlank
    /\ pc = "select"
    /\ choosen_data_set = "california"
    /\ n_source_rows = 1
    /\ test_fraction = test_size
    /\ validation_fraction = test_size


\* The whole notebook, on a smaller data source.
InitPipeline ==
    /\ pc = "select"
    /\ choosen_data_set \in DataSetChoices
    /\ n_source_rows \in 1..MaxPipelineRows
    /\ test_fraction = test_size
    /\ validation_fraction = test_size
    /\ Blank

Init ==
    /\ pc = "select"
    /\ choosen_data_set \in DataSetChoices
    /\ n_source_rows \in 1..MaxRows
    /\ test_fraction = test_size
    /\ validation_fraction = test_size
    /\ Blank

\* Column lists of the frames handed to remove_features on its own.
PruneColumnLists == {<<"a", "b", "c">>, <<"a", "b">>, <<"b", "c">>}

\* A two-row frame with the given columns.
PruneFrame(columns) ==
    [columns |-> columns,
     index   |-> <<0, 1>>,
     rows    |-> [i \in 1..2 |-> [j \in 1..Len(columns) |-> 10 * i + j]]]

\* The pruning cell on its own: three frames whose columns need not agree, and
\* a score list.
InitPrune ==
    /\ TrainBlank
    /\ DistIdle
    /\ pc = "prune_train"
    /\ err = "none"
    /\ choosen_data_set = "california"
    /\ n_source_rows = 2
    /\ test_fraction = test_size
    /\ validation_fraction = test_size
    /\ X = NoFrame /\ Y = NoFrame
    /\ \E c \in PruneColumnLists : X_train = PruneFrame(c)
    /\ \E c \in PruneColumnLists : X_val = PruneFrame(c)
    /\ \E c \in PruneColumnLists : X_test = PruneFrame(c)
    /\ Y_train = NoFrame /\ Y_val = NoFrame /\ Y_test = NoFrame
    /\ X_data = <<>> /\ y_label = <<>>
    /\ feature_importances_xgboost \in [1..3 -> ScoreValues]
    /\ feature_importances_permutations = <<>>
    /\ ranked_lst = <<>>
    /\ features_to_remove = <<>>
    /\ returned = <<>>
    /\ files = [f \in {} |-> <<>>]
    /\ uploads = <<>>

\* Scores handed to show_ranked_feature_importance_list on its own.
RankScoreValues == {0, 1, 20, 50}

\* The ranking function on its own: a frame and a score list.
InitRank ==
    /\ TrainBlank
    /\ DistIdle
    /\ pc = "rank"
    /\ err = "none"
    /\ choosen_data_set = "california"
    /\ n_source_rows = 2
    /\ test_fraction = test_size
    /\ validation_fraction = test_size
    /\ X = NoFrame /\ Y = NoFrame
    /\ \E c \in PruneColumnLists : X_train = PruneFrame(c)
    /\ X_val = NoFrame /\ X_test = NoFrame
    /\ Y_train = NoFrame /\ Y_val = NoFrame /\ Y_test = NoFrame
    /\ X_data = <<>> /\ y_label = <<>>
    /\ feature_importances_xgboost \in [1..3 -> RankScoreValues]
    /\ feature_importances_permutations = <<>>
    /\ ranked_lst = <<>>
    /\ features_to_remove = <<>>
    /\ returned = <<>>
    /\ files = [f \in {} |-> <<>>]
    /\ uploads = <<>>

\* The split cell with its two test_size arguments left to the caller.
InitSplitArgs ==
    /\ pc = "select"
    /\ choosen_data_set \in data_sets
    /\ n_source_rows \in 1..MaxRows
    /\ test_fraction \in FractionChoices
    /\ validation_fraction \in FractionChoices
    /\ Blank

(* --------------------------- DatasetSplitter -------------------------- *)

\* n_test = ceil(test_size * n_samples)
NumTest(n, size) == (size * n + 99) \div 100

\* n_train = n_samples - n_test (train_size is None)
NumTrain(n, size) == n - NumTest(n, size)

\* Variant of InvalidTestSize: only values beyond the ends are rejected.
InvalidTestSizeEndsAllowed(size) == size < 0 \/ size > 100

\* A float test_size must lie strictly between 0 and 1.
InvalidTestSize(size) == size <= 0 \/ size >= 100

\* train_test_split raises ValueError when test_size is not a fraction inside
\* (0, 1), or when the resulting train set is empty.
SplitFails(n, size) == InvalidTestSize(size) \/ NumTrain(n, size) = 0

\* rng.permutation(n_samples): any ordering of the row positions.
RowPermutations(n) ==
    {p \in [1..n -> 1..n] : \A i, j \in 1..n : p[i] = p[j] => i = j}

\* ind_test = permutation[:n_test]
TestPositions(permutation, n, size) == SubSeq(permutation, 1, NumTest(n, size))

\* Variant of TrainPositions: the slice starts one position early, so the
\* last test row is also a train row.
TrainPositionsFromLastTest(permutation, n, size) ==
    SubSeq(permutation, NumTest(n, size), NumTest(n, size) + NumTrain(n, size))

\* ind_train = permutation[n_test:(n_test + n_train)]
TrainPositions(permutation, n, size) ==
    SubSeq(permutation, NumTest(n, size) + 1, NumTest(n, size) + NumTrain(n, size))

\* df.iloc[positions]: a new frame with the selected rows, in that order.
Take(df, positions) ==
    [columns |-> df.columns,
     index   |-> [k \in 1..Len(positions) |-> df.index[positions[k]]],
     rows    |-> [k \in 1..Len(positions) |-> df.rows[positions[k]]]]

\* train_test_split(A, B, test_size=size) -> A_train, A_test, B_train, B_test
\* Both arrays are indexed with the same train and test positions.
train_test_split(A, B, size, permutation) ==
    LET n == Len(A.index) IN
    << Take(A, TrainPositions(permutation, n, size)),
       Take(A, TestPositions(permutation, n, size)),
       Take(B, TrainPositions(permutation, n, size)),
       Take(B, TestPositions(permutation, n, size)) >>

(* --------------------------- ImportanceScorer ------------------------- *)

\* Variant of make_regression: the two shape arguments are exchanged.
make_regression_shape_swapped(n_samples, n_features) ==
    [data   |-> [i \in 1..n_features |-> [j \in 1..n_samples |-> 9000 + 10 * i + j]],
     target |-> [i \in 1..n_features |-> 9900 + i]]

\* make_regression(n_samples, n_features, n_informative=10, random_state=1):
\* a synthetic regression problem of the requested shape.  With the seed fixed
\* its values are a function of the shape alone; the generated numbers are
\* represented by values that no dataset cell carries.
make_regression(n_samples, n_features) ==
    [data   |-> [i \in 1..n_samples |-> [j \in 1..n_features |-> 9000 + 10 * i + j]],
     target |-> [i \in 1..n_samples |-> 9900 + i]]

\* Number of columns of a fitted array.
NumColumns(array) == IF Len(array) = 0 THEN 0 ELSE Len(array[1])

\* xgboost_model.feature_importances_ after fit(X_data, y_label): one score
\* per column of the fitted array; the values are the library's.
xgboost_feature_importances(array) == [1..NumColumns(array) -> ScoreValues]

\* permutation_importance(k_nn_model, X_data, y_label, ...).importances_mean:
\* one mean importance per column of the scored array.
permutation_importances_mean(array) ==
    [1..NumColumns(array) -> PermutationScoreValues]

(* ----------------------------- FeatureRanker -------------------------- *)

Min(a, b) == IF a <= b THEN a ELSE b

\* list(zip(a, b)): pairs up to the shorter length.
Zip(a, b) == [i \in 1..Min(Len(a), Len(b)) |-> <<a[i], b[i]>>]

\* Variant of InsertByScore: the pair goes before the pairs with an equal
\* score (a sort that is not stable).
InsertBeforeTies(sorted_prefix, pair) ==
    LET k == Cardinality({i \in 1..Len(sorted_prefix) :
                            sorted_prefix[i][2] > pair[2]})
    IN SubSeq(sorted_prefix, 1, k) \o <<pair>>
         \o SubSeq(sorted_prefix, k + 1, Len(sorted_prefix))

\* One step of sorted(..., key=lambda t: t[1], reverse=True): the pair goes
\* after every pair whose score is greater than or equal to its own, so pairs
\* with equal scores keep the order in which they arrived.
InsertByScore(sorted_prefix, pair) ==
    LET k == Cardinality({i \in 1..Len(sorted_prefix) :
                            sorted_prefix[i][2] >= pair[2]})
    IN SubSeq(sorted_prefix, 1, k) \o <<pair>>
         \o SubSeq(sorted_prefix, k + 1, Len(sorted_prefix))

RECURSIVE SortedByScore(_, _)
SortedByScore(lst, done) ==
    IF lst = <<>> THEN done
    ELSE SortedByScore(Tail(lst), InsertByScore(done, Head(lst)))

\* show_ranked_feature_importance_list(scores, data): the list it prints.
show_ranked_feature_importance_list(scores, data) ==
    SortedByScore(Zip(data.columns, scores), <<>>)

(* ----------------------------- FeaturePruner -------------------------- *)

RECURSIVE CollectFeatures(_, _)

\* for index, pair in enumerate(list(zip(data.columns, lst))):
\*     if pair[1] <= threshold: features_to_remove.append(pair[0])
CollectFeatures(pairs, thr) ==
    IF pairs = <<>> THEN <<>>
    ELSE (IF Head(pairs)[2] <= thr THEN <<Head(pairs)[1]>> ELSE <<>>)
           \o CollectFeatures(Tail(pairs), thr)

\* Variant of FeaturesToRemove: the loop runs over as many pairs as the frame
\* has rows (len(data)) instead of over its columns.
FeaturesToRemoveByRowCount(lst, data, thr) ==
    LET pairs == Zip(data.columns, lst) IN
    CollectFeatures(SubSeq(pairs, 1, Min(Len(data.index), Len(pairs))), thr)

FeaturesToRemove(lst, data, thr) == CollectFeatures(Zip(data.columns, lst), thr)

\* Column positions of data that are not named in labels.
KeptPositions(data, labels) ==
    SelectSeq([j \in 1..Len(data.columns) |-> j],
              LAMBDA j : data.columns[j] \notin Range(labels))

\* data.drop(labels, axis=1): a NEW frame without the named columns.
Drop(data, labels) ==
    LET keep == KeptPositions(data, labels) IN
    [columns |-> [k \in 1..Len(keep) |-> data.columns[keep[k]]],
     index   |-> data.index,
     rows    |-> [r \in 1..Len(data.rows) |->
                    [k \in 1..Len(keep) |-> data.rows[r][keep[k]]]]]

\* Variant of remove_features: the drop is done in place (inplace=True).
remove_features_inplace(lst, data, thr) ==
    LET to_remove == FeaturesToRemove(lst, data, thr)
        reduced   == IF to_remove # <<>> THEN Drop(data, to_remove) ELSE data
    IN [data               |-> reduced,
        features_to_remove |-> to_remove,
        dropped            |-> reduced,
        raised             |-> "none",
        result             |-> None]

\* Variant of remove_features: the pairing insists on as many scores as
\* columns (zip(..., strict=True)) and raises otherwise.
remove_features_strict_zip(lst, data, thr) ==
    LET to_remove == FeaturesToRemove(lst, data, thr)
        discarded == IF to_remove # <<>> THEN Drop(data, to_remove) ELSE data
    IN [data               |-> data,
        features_to_remove |-> to_remove,
        dropped            |-> discarded,
        raised             |-> IF Len(lst) # Len(data.columns)
                               THEN "ValueError" ELSE "none",
        result             |-> None]

\* remove_features(lst, data, threshold).  The frame data.drop builds is not
\* assigned to anything and the function has no return statement: the object
\* bound to data is left as it was and the call evaluates to None.  Nothing in
\* it raises: zip stops at the shorter sequence and every label handed to
\* drop is one of the frame's own columns.
remove_features(lst, data, thr) ==
    LET to_remove == FeaturesToRemove(lst, data, thr)
        discarded == IF to_remove # <<>> THEN Drop(data, to_remove) ELSE data
    IN [data               |-> data,
        features_to_remove |-> to_remove,
        dropped            |-> discarded,
        raised             |-> "none",
        result             |-> None]

(* ------------------------------ CSV output ---------------------------- *)

\* Missing cell of an outer join.
NaN == -1

Digit(d) == <<"0", "1", "2", "3", "4", "5", "6", "7", "8", "9">>[d + 1]

RECURSIVE Digits(_)
Digits(v) == IF v < 10 THEN <<Digit(v)>> ELSE Digits(v \div 10) \o <<Digit(v % 10)>>

\* Variant of FormatCell: the last digit is rounded away (a float_format
\* with too few places).
FormatCellRounded(v) == IF v = NaN THEN <<>> ELSE Digits((v \div 10) * 10)

\* Text of one cell as to_csv writes it: the number's characters, and the
\* empty string for a missing value.
FormatCell(v) == IF v = NaN THEN <<>> ELSE Digits(v)

\* Values of the row labelled label, NaN-filled when the frame has no such row.
RowAt(df, label) ==
    IF \E k \in 1..Len(df.index) : df.index[k] = label
    THEN df.rows[CHOOSE k \in 1..Len(df.index) : df.index[k] = label]
    ELSE [j \in 1..Len(df.columns) |-> NaN]

\* Variant of ConcatColumns: the columns of right come first.
ConcatColumnsRightFirst(left, right) ==
    LET extra  == SelectSeq(right.index, LAMBDA l : l \notin Range(left.index))
        labels == left.index \o extra
    IN [columns |-> right.columns \o left.columns,
        index   |-> labels,
        rows    |-> [k \in 1..Len(labels) |->
                       RowAt(right, labels[k]) \o RowAt(left, labels[k])]]

\* pd.concat([left, right], axis=1): outer join on the row labels, the
\* columns of left followed by the columns of right.
ConcatColumns(left, right) ==
    LET extra  == SelectSeq(right.index, LAMBDA l : l \notin Range(left.index))
        labels == left.index \o extra
    IN [columns |-> left.columns \o right.columns,
        index   |-> labels,
        rows    |-> [k \in 1..Len(labels) |->
                       RowAt(left, labels[k]) \o RowAt(right, labels[k])]]

\* Reading a file back, label first: the inverse direction of the text
\* format, a field's characters to its number, the empty field to a missing
\* value; the first field of a line is the label, the others the features.
DigitValue(c) == CHOOSE d \in 0..9 : Digit(d) = c

RECURSIVE ParseDigits(_)
ParseDigits(text) ==
    IF Len(text) = 1 THEN DigitValue(text[1])
    ELSE 10 * ParseDigits(SubSeq(text, 1, Len(text) - 1))
           + DigitValue(text[Len(text)])

ParseCell(text) == IF text = <<>> THEN NaN ELSE ParseDigits(text)

read_csv_label_first(lines) ==
    [k \in 1..Len(lines) |->
        [label    |-> ParseCell(lines[k][1]),
         features |-> [j \in 1..(Len(lines[k]) - 1) |-> ParseCell(lines[k][j + 1])]]]

\* df.to_csv(path, header=False, index=False): one line per row, one field
\* per column, no header line and no index field.
to_csv(df) ==
    [k \in 1..Len(df.rows) |->
        [j \in 1..Len(df.rows[k]) |-> FormatCell(df.rows[k][j])]]

(* ------------------------------ training ------------------------------ *)

\* Variant of assert_in: the assert statement is not executed (python -O).
assert_skipped(choice, allowed) == "none"

\* assert choice in allowed: the exception it raises, if any.
assert_in(choice, allowed) ==
    IF choice \in allowed THEN "none" ELSE "AssertionError"

\* retrieve(framework=model_selected, region=..., version="latest")
retrieve(framework) == framework \o ":latest"

\* sagemaker.estimator.Estimator(container, role, ..., output_path=...)
Estimator(image_uri, prefix) ==
    [image_uri           |-> image_uri,
     output_path         |-> prefix \o "/output",
     hyperparameters     |-> [h \in {} |-> 0],
     latest_training_job |-> NoJob,
     model_data          |-> "none"]

\* model.set_hyperparameters(...) of the xgboost branch; eta and subsample in
\* hundredths.
XGBoostHyperparameters ==
    [max_depth             |-> 5,
     eta                   |-> 20,
     gamma                 |-> 4,
     min_child_weight      |-> 6,
     subsample             |-> 80,
     objective             |-> "reg:linear",
     early_stopping_rounds |-> 10,
     num_round             |-> 1]

\* Variant of LinearLearnerHyperparameters: feature_dim is data.shape[0].
LinearLearnerHyperparametersRowCount(data) ==
    [feature_dim     |-> Shape(data)[1],
     predictor_type  |-> "regressor",
     mini_batch_size |-> 100]

\* model.set_hyperparameters(feature_dim=X_train.shape[1],
\*                           predictor_type="regressor", mini_batch_size=100)
LinearLearnerHyperparameters(data) ==
    [feature_dim     |-> Shape(data)[2],
     predictor_type  |-> "regressor",
     mini_batch_size |-> 100]

\* PyTorch(entry_point="train.py", ..., source_dir=source_dir, ...)
PyTorch(source_dir) ==
    [source_dir          |-> source_dir,
     packaged            |-> "none",
     latest_training_job |-> NoJob,
     raised              |-> "none"]

\* Variant of fit: wait=False, the call returns once the job is created.
fit_no_wait(inputs, outcome) ==
    [latest_training_job |-> [status |-> "InProgress", inputs |-> inputs],
     raised              |-> "none"]

\* model.fit(inputs, wait=True): the job is created and the call blocks until
\* the job has ended; a job that did not complete raises.
fit(inputs, outcome) ==
    [latest_training_job |-> [status |-> outcome, inputs |-> inputs],
     raised              |-> IF outcome = "Completed" THEN "none"
                             ELSE "UnexpectedStatusException"]

(* --------------------------- actions ---------------------------------- *)

\* assert choosen_data_set in data_sets.keys()
SelectDataSet ==
    /\ pc = "select"
    /\ LET raised == assert_in(choosen_data_set, data_sets) IN
         IF raised = "none"
         THEN pc' = "load" /\ err' = err
         ELSE pc' = "error" /\ err' = raised
    /\ UNCHANGED <<distVars, trainVars, cfgVars, rawVars, splitVars, scoreVars, ranked_lst,
                   pruneVars, outVars>>

\* data_set = eval(...); X = pd.DataFrame(...); Y = pd.DataFrame(...)
LoadDataSet ==
    /\ pc = "load"
    /\ X' = LoadX(choosen_data_set, n_source_rows)
    /\ Y' = LoadY(choosen_data_set, n_source_rows)
    /\ pc' = "split1"
    /\ UNCHANGED <<distVars, trainVars, err, cfgVars, splitVars, scoreVars, ranked_lst,
                   pruneVars, outVars>>

\* X_train, X_test, Y_train, Y_test = train_test_split(X, Y, test_size=0.33)
SplitTest ==
    /\ pc = "split1"
    /\ IF SplitFails(Len(X.index), test_fraction)
       THEN /\ pc' = "error" /\ err' = "ValueError"
            /\ UNCHANGED splitVars
       ELSE \E permutation \in RowPermutations(Len(X.index)) :
              LET r == train_test_split(X, Y, test_fraction, permutation) IN
                /\ X_train' = r[1] /\ X_test' = r[2]
                /\ Y_train' = r[3] /\ Y_test' = r[4]
                /\ pc' = "split2" /\ err' = err
                /\ UNCHANGED <<X_val, Y_val>>
    /\ UNCHANGED <<distVars, trainVars, cfgVars, rawVars, scoreVars, ranked_lst, pruneVars, outVars>>

\* X_train, X_val, Y_train, Y_val = train_test_split(X_train, Y_train, test_size=0.33)
SplitVal ==
    /\ pc = "split2"
    /\ IF SplitFails(Len(X_train.index), validation_fraction)
       THEN /\ pc' = "error" /\ err' = "ValueError"
            /\ UNCHANGED splitVars
       ELSE \E permutation \in RowPermutations(Len(X_train.index)) :
              LET r == train_test_split(X_train, Y_train, validation_fraction, permutation) IN
                /\ X_train' = r[1] /\ X_val' = r[2]
                /\ Y_train' = r[3] /\ Y_val' = r[4]
                /\ pc' = "score_xgboost" /\ err' = err
                /\ UNCHANGED <<X_test, Y_test>>
    /\ UNCHANGED <<distVars, trainVars, cfgVars, rawVars, scoreVars, ranked_lst, pruneVars, outVars>>

\* X_data, y_label = make_regression(...); xgboost_model.fit(X_data, y_label)
\* feature_importances_xgboost = xgboost_model.feature_importances_; print loop
ScoreXGBoost ==
    /\ pc = "score_xgboost"
    /\ LET m == make_regression(Shape(X_train)[1], Shape(X_train)[2]) IN
         /\ X_data' = m.data
         /\ y_label' = m.target
         /\ \E scores \in xgboost_feature_importances(m.data) :
              /\ feature_importances_xgboost' = scores
              /\ IF Len(scores) > Len(X_train.columns)
                 THEN pc' = "error" /\ err' = "IndexError"
                 ELSE pc' = "rank_xgboost" /\ err' = err
    /\ UNCHANGED <<distVars, trainVars, cfgVars, rawVars, splitVars, feature_importances_permutations,
                   ranked_lst, pruneVars, outVars>>

\* show_ranked_feature_importance_list(feature_importances_xgboost, X_train)
RankXGBoost ==
    /\ pc = "rank_xgboost"
    /\ ranked_lst' = show_ranked_feature_importance_list(
                         feature_importances_xgboost, X_train)
    /\ pc' = "score_permutation"
    /\ UNCHANGED <<distVars, trainVars, err, cfgVars, rawVars, splitVars, scoreVars, pruneVars, outVars>>

\* X_data, y_label = make_regression(...); k_nn_model.fit(X_data, y_label)
\* feature_importances_permutations = permutation_importance(...).importances_mean
ScorePermutation ==
    /\ pc = "score_permutation"
    /\ LET m == make_regression(Shape(X_train)[1], Shape(X_train)[2]) IN
         /\ X_data' = m.data
         /\ y_label' = m.target
         /\ \E scores \in permutation_importances_mean(m.data) :
              /\ feature_importances_permutations' = scores
              /\ IF Len(scores) > Len(X_train.columns)
                 THEN pc' = "error" /\ err' = "IndexError"
                 ELSE pc' = "rank_permutation" /\ err' = err
    /\ UNCHANGED <<distVars, trainVars, cfgVars, rawVars, splitVars, feature_importances_xgboost,
                   ranked_lst, pruneVars, outVars>>

\* show_ranked_feature_importance_list(feature_importances_permutations, X_train)
RankPermutation ==
    /\ pc = "rank_permutation"
    /\ ranked_lst' = show_ranked_feature_importance_list(
                         feature_importances_permutations, X_train)
    /\ pc' = "prune_train"
    /\ UNCHANGED <<distVars, trainVars, err, cfgVars, rawVars, splitVars, scoreVars, pruneVars, outVars>>

\* remove_features(lst=feature_importances_xgboost, data=X_train, threshold=threshold)
PruneTrain ==
    /\ pc = "prune_train"
    /\ LET r == remove_features(feature_importances_xgboost, X_train, threshold) IN
         /\ X_train' = r.data
         /\ features_to_remove' = Append(features_to_remove, r.features_to_remove)
         /\ returned' = Append(returned, r.result)
         /\ err' = r.raised
         /\ pc' = IF r.raised = "none" THEN "prune_val" ELSE "error"
    /\ UNCHANGED <<distVars, trainVars, cfgVars, rawVars, X_val, X_test, Y_train, Y_val, Y_test,
                   scoreVars, ranked_lst, outVars>>

\* remove_features(lst=feature_importances_xgboost, data=X_val, threshold=threshold)
PruneVal ==
    /\ pc = "prune_val"
    /\ LET r == remove_features(feature_importances_xgboost, X_val, threshold) IN
         /\ X_val' = r.data
         /\ features_to_remove' = Append(features_to_remove, r.features_to_remove)
         /\ returned' = Append(returned, r.result)
         /\ err' = r.raised
         /\ pc' = IF r.raised = "none" THEN "prune_test" ELSE "error"
    /\ UNCHANGED <<distVars, trainVars, cfgVars, rawVars, X_train, X_test, Y_train, Y_val, Y_test,
                   scoreVars, ranked_lst, outVars>>

\* remove_features(lst=feature_importances_xgboost, data=X_test, threshold=threshold)
PruneTest ==
    /\ pc = "prune_test"
    /\ LET r == remove_features(feature_importances_xgboost, X_test, threshold) IN
         /\ X_test' = r.data
         /\ features_to_remove' = Append(features_to_remove, r.features_to_remove)
         /\ returned' = Append(returned, r.result)
         /\ err' = r.raised
         /\ pc' = IF r.raised = "none" THEN "write_csv" ELSE "error"
    /\ UNCHANGED <<distVars, trainVars, cfgVars, rawVars, X_train, X_val, Y_train, Y_val, Y_test,
                   scoreVars, ranked_lst, outVars>>

\* pd.concat([Y_train, X_train], axis=1).to_csv(".../train.csv", header=False, index=False)
\* pd.concat([Y_val, X_val], axis=1).to_csv(".../validation.csv", header=False, index=False)
\* val_location = session.upload_data(".../validation.csv", key_prefix=prefix)
\* train_location = session.upload_data(".../train.csv", key_prefix=prefix)
WriteAndUploadCsv ==
    /\ pc = "write_csv"
    /\ LET train_csv == to_csv(ConcatColumns(Y_train, X_train))
           val_csv   == to_csv(ConcatColumns(Y_val, X_val))
           prefix    == choosen_data_set \o "-deploy-hl"
       IN /\ files' = [f \in {"train.csv", "validation.csv"} |->
                         IF f = "train.csv" THEN train_csv ELSE val_csv]
          /\ uploads' = uploads
                \o << [key |-> prefix \o "/validation.csv", body |-> val_csv],
                      [key |-> prefix \o "/train.csv", body |-> train_csv] >>
    /\ pc' = "select_model"
    /\ UNCHANGED <<distVars, trainVars, err, cfgVars, rawVars, splitVars, scoreVars, ranked_lst, pruneVars>>

\* models = [...]; model_selected = ...; assert model_selected in models
SelectModel ==
    /\ pc = "select_model"
    /\ \E m \in ModelChoices :
         /\ model_selected' = m
         /\ LET raised == assert_in(m, models) IN
              IF raised = "none"
              THEN pc' = "retrieve" /\ err' = err
              ELSE pc' = "error" /\ err' = raised
    /\ UNCHANGED <<distVars, container, model, downloaded, cfgVars, rawVars,
                   splitVars, scoreVars, ranked_lst, pruneVars, outVars>>

\* container = retrieve(...); model = sagemaker.estimator.Estimator(...)
RetrieveAndCreateEstimator ==
    /\ pc = "retrieve"
    /\ container' = retrieve(model_selected)
    /\ model' = Estimator(retrieve(model_selected), choosen_data_set \o "-deploy-hl")
    /\ pc' = "set_hyperparameters"
    /\ UNCHANGED <<distVars, model_selected, downloaded, err, cfgVars, rawVars,
                   splitVars, scoreVars, ranked_lst, pruneVars, outVars>>

\* if model_selected == "xgboost": ...  if model_selected == "linear-learner": ...
SetHyperparameters ==
    /\ pc = "set_hyperparameters"
    /\ model' = [model EXCEPT !.hyperparameters =
                    IF model_selected = "linear-learner"
                    THEN LinearLearnerHyperparameters(X_train)
                    ELSE IF model_selected = "xgboost"
                    THEN XGBoostHyperparameters
                    ELSE @]
    /\ pc' = "fit"
    /\ UNCHANGED <<distVars, model_selected, container, downloaded, err, cfgVars,
                   rawVars, splitVars, scoreVars, ranked_lst, pruneVars, outVars>>

\* model.fit({"train": s3_input_train, "validation": s3_input_validation},
\*           wait=True), the two inputs being TrainingInput pointers to
\* train_location and val_location, the keys the upload returned.
Fit ==
    /\ pc = "fit"
    /\ \E outcome \in JobOutcomes :
         LET r == fit([train |-> uploads[2].key, validation |-> uploads[1].key],
                      outcome) IN
           /\ model' = [model EXCEPT
                           !.latest_training_job = r.latest_training_job,
                           !.model_data = model.output_path \o "/model.tar.gz"]
           /\ err' = r.raised
           /\ pc' = IF r.raised = "none" THEN "download" ELSE "error"
    /\ UNCHANGED <<distVars, model_selected, container, downloaded, cfgVars,
                   rawVars, splitVars, scoreVars, ranked_lst, pruneVars, outVars>>

\* sagemaker.s3.S3Downloader.download(s3_uri=model.model_data, local_path="./")
Download ==
    /\ pc = "download"
    /\ downloaded' = model.model_data
    /\ pc' = "done"
    /\ UNCHANGED <<distVars, model_selected, container, model, err, cfgVars,
                   rawVars, splitVars, scoreVars, ranked_lst, pruneVars, outVars>>

(* ---------------- actions of the distributed-training notebook -------- *)

\* subprocess.Popen("aws ecr get-login-password ... docker login ...",
\* shell=True): the shell is started and the cell ends; nothing waits for it.
PopenLogin ==
    /\ dpc = "login"
    /\ login' = "running"
    /\ dpc' = "build"
    /\ UNCHANGED <<tabularVars, clone, smddp_examples, build_saw_login,
                   fit_saw_clone, estimator>>

\* The login shell exits.
LoginExits ==
    /\ login = "running"
    /\ login' = "exited"
    /\ UNCHANGED <<tabularVars, dpc, clone, smddp_examples, build_saw_login,
                   fit_saw_clone, estimator>>

\* ! chmod +x build_and_push.sh; bash build_and_push.sh {region} {image} {tag}
\* The cell blocks until the script has ended; the script starts in whatever
\* state the login process is in.
BuildAndPush ==
    /\ dpc = "build"
    /\ build_saw_login' = login
    /\ dpc' = "clone"
    /\ UNCHANGED <<tabularVars, login, clone, smddp_examples, fit_saw_clone,
                   estimator>>

\* subprocess.Popen("rm -rf SMDDP-Examples && git clone ...", shell=True):
\* the shell is started and the cell ends; nothing waits for it.
PopenClone ==
    /\ dpc = "clone"
    /\ clone' = "removing"
    /\ dpc' = "configure"
    /\ UNCHANGED <<tabularVars, login, smddp_examples, build_saw_login,
                   fit_saw_clone, estimator>>

\* The clone shell: rm -rf SMDDP-Examples has ended.
CloneRemoves ==
    /\ clone = "removing"
    /\ smddp_examples' = "absent"
    /\ clone' = "cloning"
    /\ UNCHANGED <<tabularVars, dpc, login, build_saw_login, fit_saw_clone,
                   estimator>>

\* The clone shell: git clone has created the directory and is filling it.
CloneWrites ==
    /\ clone = "cloning"
    /\ smddp_examples = "absent"
    /\ smddp_examples' = "partial"
    /\ UNCHANGED <<tabularVars, dpc, login, clone, build_saw_login,
                   fit_saw_clone, estimator>>

\* The clone shell: git clone has checked out the last file and exits.
CloneExits ==
    /\ clone = "cloning"
    /\ smddp_examples = "partial"
    /\ smddp_examples' = "complete"
    /\ clone' = "exited"
    /\ UNCHANGED <<tabularVars, dpc, login, build_saw_login, fit_saw_clone,
                   estimator>>

\* The clone shell: git clone fails before creating the directory.
CloneFails ==
    /\ clone = "cloning"
    /\ smddp_examples = "absent"
    /\ clone' = "exited"
    /\ UNCHANGED <<tabularVars, dpc, login, smddp_examples, build_saw_login,
                   fit_saw_clone, estimator>>

\* instance_type = ...; job_name = ...; hyperparameters = {...}
ConfigureJob ==
    /\ dpc = "configure"
    /\ dpc' = "estimator"
    /\ UNCHANGED <<tabularVars, login, clone, smddp_examples, build_saw_login,
                   fit_saw_clone, estimator>>

\* estimator = PyTorch(entry_point="train.py", ...,
\*     source_dir="./SMDDP-Examples/pytorch/object_detection/yolov5", ...)
CreateEstimator ==
    /\ dpc = "estimator"
    /\ estimator' = PyTorch("./SMDDP-Examples/pytorch/object_detection/yolov5")
    /\ dpc' = "inputs"
    /\ UNCHANGED <<tabularVars, login, clone, smddp_examples, build_saw_login,
                   fit_saw_clone>>

\* train_fs = FileSystemInput(...); data_channels = {"train": train_fs}
CreateInputs ==
    /\ dpc = "inputs"
    /\ dpc' = "fit"
    /\ UNCHANGED <<tabularVars, login, clone, smddp_examples, build_saw_login,
                   fit_saw_clone, estimator>>

\* estimator.fit(inputs=data_channels, job_name=job_name): source_dir is
\* packaged as it is on disk at this moment (a missing directory raises),
\* the job is created and the call blocks until the job has ended.
FitEstimator ==
    /\ dpc = "fit"
    /\ fit_saw_clone' = clone
    /\ IF smddp_examples = "absent"
       THEN /\ estimator' = [estimator EXCEPT !.raised = "ValueError"]
            /\ dpc' = "error"
       ELSE \E outcome \in JobOutcomes :
              LET r == fit(<<"train_fs">>, outcome) IN
                /\ estimator' = [estimator EXCEPT
                                   !.packaged = smddp_examples,
                                   !.latest_training_job = r.latest_training_job,
                                   !.raised = r.raised]
                /\ dpc' = IF r.raised = "none" THEN "done" ELSE "error"
    /\ UNCHANGED <<tabularVars, login, clone, smddp_examples, build_saw_login>>

NextDist ==
    \/ PopenLogin
    \/ LoginExits
    \/ BuildAndPush
    \/ PopenClone
    \/ CloneRemoves
    \/ CloneWrites
    \/ CloneExits
    \/ CloneFails
    \/ ConfigureJob
    \/ CreateEstimator
    \/ CreateInputs
    \/ FitEstimator

SpecDist == InitDist /\ [][NextDist]_vars

Next ==
    \/ SelectDataSet
    \/ LoadDataSet
    \/ SplitTest
    \/ SplitVal
    \/ ScoreXGBoost
    \/ RankXGBoost
    \/ ScorePermutation
    \/ RankPermutation
    \/ PruneTrain
    \/ PruneVal
    \/ PruneTest
    \/ WriteAndUploadCsv

Spec == Init /\ [][Next]_vars

NextPipeline ==
    \/ SelectDataSet
    \/ LoadDataSet
    \/ SplitTest
    \/ SplitVal
    \/ ScoreXGBoost
    \/ RankXGBoost
    \/ ScorePermutation
    \/ RankPermutation
    \/ PruneTrain
    \/ PruneVal
    \/ PruneTest
    \/ WriteAndUploadCsv
    \/ SelectModel
    \/ RetrieveAndCreateEstimator
    \/ SetHyperparameters
    \/ Fit
    \/ Download

SpecPipeline == InitPipeline /\ [][NextPipeline]_vars

NextSplitArgs ==
    \/ SelectDataSet
    \/ LoadDataSet
    \/ SplitTest
    \/ SplitVal

SpecSplitArgs == InitSplitArgs /\ [][NextSplitArgs]_vars

\* show_ranked_feature_importance_list(scores, data) on the drawn inputs.
Rank ==
    /\ pc = "rank"
    /\ ranked_lst' = show_ranked_feature_importance_list(
                         feature_importances_xgboost, X_train)
    /\ pc' = "rerank"
    /\ UNCHANGED <<distVars, trainVars, err, cfgVars, rawVars, splitVars, scoreVars, pruneVars, outVars>>

\* show_ranked_feature_importance_list applied to the ranked list's own
\* features and scores, in the order the first call left them.
Rerank ==
    /\ pc = "rerank"
    /\ ranked_lst' = show_ranked_feature_importance_list(
                         [i \in 1..Len(ranked_lst) |-> ranked_lst[i][2]],
                         [columns |-> [i \in 1..Len(ranked_lst) |-> ranked_lst[i][1]]])
    /\ pc' = "reranked"
    /\ UNCHANGED <<distVars, trainVars, err, cfgVars, rawVars, splitVars, scoreVars, pruneVars, outVars>>

NextRank ==
    \/ Rank
    \/ Rerank

SpecRank == InitRank /\ [][NextRank]_vars

NextPrune ==
    \/ PruneTrain
    \/ PruneVal
    \/ PruneTest

SpecPrune == InitPrune /\ [][NextPrune]_vars

(* ------------------------- shared vocabulary -------------------------- *)

\* Position of a value in a sequence without repetitions.
PositionOf(seq, x) == CHOOSE i \in 1..Len(seq) : seq[i] = x

\* Both splits have run.
SplitDone == X_val # NoFrame

\* All three remove_features calls have returned.
PruneDone == Len(returned) = 3

\* The three feature frames the later cells use.
Downstream == <<X_train, X_val, X_test>>

\* Features of the loaded dataset the xgboost score vector puts above / not
\* above the threshold.
Surviving == {X.columns[i] : i \in {k \in 1..Len(X.columns) :
                  k <= Len(feature_importances_xgboost)
                  /\ feature_importances_xgboost[k] > threshold}}

Condemned == {X.columns[i] : i \in {k \in 1..Len(X.columns) :
                  k <= Len(feature_importances_xgboost)
                  /\ feature_importances_xgboost[k] <= threshold}}

\* The score vector the list in ranked_lst was computed from.
RankedScores ==
    IF pc \in {"score_permutation", "rank_permutation"}
    THEN feature_importances_xgboost
    ELSE feature_importances_permutations

(* ------------------------------- C1 ----------------------------------- *)

\* C1: after the three remove_features calls, every feature whose score is
\* <= threshold is absent from train, validation and test, and every feature
\* whose score is > threshold is still present in each of them.
C1_PrunedFeaturesAbsent ==
    PruneDone =>
        \A d \in 1..3 : Range(Downstream[d].columns) = Surviving

(* ------------------------------- C2 ----------------------------------- *)

RowLabels(df) == Range(df.index)

\* Every row of the subset is the row of the loaded dataset with its label,
\* features and label alike.
RowsAreOriginal(Xs, Ys) ==
    /\ Xs.index = Ys.index
    /\ Cardinality(RowLabels(Xs)) = Len(Xs.index)
    /\ \A k \in 1..Len(Xs.index) :
         /\ Xs.index[k] \in RowLabels(X)
         /\ Xs.rows[k] = X.rows[PositionOf(X.index, Xs.index[k])]
         /\ Ys.rows[k] = Y.rows[PositionOf(Y.index, Xs.index[k])]

\* C3: the two successive splits yield three row sets that are pairwise
\* disjoint and whose union is the loaded dataset's rows, the three lengths
\* add up to the dataset's length, and the feature rows and label rows of
\* each subset are the same original rows.
C3_SplitsPartitionRows ==
    SplitDone =>
        /\ RowLabels(X_train) \cap RowLabels(X_val) = {}
        /\ RowLabels(X_train) \cap RowLabels(X_test) = {}
        /\ RowLabels(X_val) \cap RowLabels(X_test) = {}
        /\ RowLabels(X_train) \cup RowLabels(X_val) \cup RowLabels(X_test)
             = RowLabels(X)
        /\ Len(X_train.index) + Len(X_val.index) + Len(X_test.index)
             = Len(X.index)
        /\ RowsAreOriginal(X_train, Y_train)
        /\ RowsAreOriginal(X_val, Y_val)
        /\ RowsAreOriginal(X_test, Y_test)

\* Both splits done on a dataset large enough that a subset holds several
\* rows, which the shuffle has put out of their original order.
C3_Witness ==
    /\ SplitDone
    /\ Len(X_test.index) >= 2
    /\ X_test.index[1] > X_test.index[2]

(* ------------------------------- C4 ----------------------------------- *)

\* C4: the ranked list holds the (feature, score) pairs by score descending,
\* and two features with equal scores appear in their column order.
C4_RankedDescendingStable ==
    ranked_lst # <<>> =>
        /\ Len(ranked_lst) = Len(X_train.columns)
        /\ Range(ranked_lst) = Range(Zip(X_train.columns, RankedScores))
        /\ \A i, j \in 1..Len(ranked_lst) :
             i < j =>
               /\ ranked_lst[i][2] >= ranked_lst[j][2]
               /\ ranked_lst[i][2] = ranked_lst[j][2] =>
                    PositionOf(X_train.columns, ranked_lst[i][1])
                      < PositionOf(X_train.columns, ranked_lst[j][1])

\* Scores 0.5, 0.5, 0.0 for three columns are ranked in column order.
C4_Witness ==
    /\ pc = "score_permutation"
    /\ feature_importances_xgboost = <<50, 50, 0>>
    /\ ranked_lst = <<<<"MedInc", 50>>, <<"HouseAge", 50>>, <<"AveRooms", 0>>>>

(* ------------------------------- C5 ----------------------------------- *)

\* The line a file must hold for the row labelled label: the text of the
\* row's label, then the texts of the row's features in column order.
ExpectedLine(label, columns) ==
    <<FormatCell(Y.rows[PositionOf(Y.index, label)][1])>>
      \o [j \in 1..Len(columns) |->
            FormatCell(X.rows[PositionOf(X.index, label)]
                             [PositionOf(X.columns, columns[j])])]

FileIsLabelFirst(name, Xs) ==
    /\ Len(files[name]) = Len(Xs.index)
    /\ \A k \in 1..Len(Xs.index) :
         files[name][k] = ExpectedLine(Xs.index[k], Xs.columns)

\* C5: every line of train.csv and validation.csv is the label followed by
\* the features in the dataset's column order, there is no header line, and
\* the label of a line belongs to the same dataset row as its features.
C5_CsvLabelFirst ==
    DOMAIN files # {} =>
        /\ FileIsLabelFirst("train.csv", X_train)
        /\ FileIsLabelFirst("validation.csv", X_val)

\* Both files written, train.csv holding a label and three features of a row
\* that the shuffle moved away from the dataset's first position.
C5_Witness ==
    /\ DOMAIN files = {"train.csv", "validation.csv"}
    /\ Len(files["train.csv"]) >= 1
    /\ Len(files["train.csv"][1]) = 4
    /\ X_train.index[1] # 0

(* ------------------------------- C6 ----------------------------------- *)

\* C6: the data each scoring strategy fits and scores on is the train
\* dataset produced by the splitter.
C6_ScorerFitsTrainSplit ==
    X_data # <<>> =>
        /\ X_data = X_train.rows
        /\ y_label = [k \in 1..Len(Y_train.rows) |-> Y_train.rows[k][1]]

(* ------------------------------- C7 ----------------------------------- *)

\* C7: either strategy's output holds exactly one score per feature of the
\* training dataset, and the score at position i goes with the feature at
\* column position i in the ranked list and in the pruner's selection.
C7_OneScorePerFeature ==
    /\ feature_importances_xgboost # <<>> =>
         Len(feature_importances_xgboost) = Len(X_train.columns)
    /\ feature_importances_permutations # <<>> =>
         Len(feature_importances_permutations) = Len(X_train.columns)
    /\ ranked_lst # <<>> =>
         \A i \in 1..Len(X_train.columns) :
           Cardinality({k \in 1..Len(ranked_lst) :
                          ranked_lst[k][1] = X_train.columns[i]}) = 1
           /\ <<X_train.columns[i], RankedScores[i]>> \in Range(ranked_lst)
    /\ \A c \in 1..Len(features_to_remove) :
         \A i \in 1..Len(X_train.columns) :
           (X_train.columns[i] \in Range(features_to_remove[c]))
             <=> (feature_importances_xgboost[i] <= threshold)

\* Both strategies have scored a training split whose row count differs from
\* its column count, and the pruner has made a selection.
C7_Witness ==
    /\ Len(features_to_remove) >= 1
    /\ feature_importances_permutations # <<>>
    /\ Len(X_train.index) # Len(X_train.columns)

(* ------------------------------- C8 ----------------------------------- *)

\* C8: pruning with the threshold below the minimum score removes no feature;
\* with the threshold above the maximum score it removes every feature,
\* without raising, and leaves datasets with zero features.
C8_ThresholdExtremes ==
    PruneDone =>
        /\ (\A i \in 1..Len(feature_importances_xgboost) :
              threshold < feature_importances_xgboost[i])
             => \A d \in 1..3 : Downstream[d].columns = X.columns
        /\ (\A i \in 1..Len(feature_importances_xgboost) :
              threshold > feature_importances_xgboost[i])
             => /\ err = "none"
                /\ \A d \in 1..3 : Downstream[d].columns = <<>>

(* ------------------------------- C9 ----------------------------------- *)

\* The frame a call must return for the frame it was given.
IsPrunedFrom(out, in) ==
    /\ out # None
    /\ out.index = in.index
    /\ out.columns = SelectSeq(in.columns, LAMBDA f : f \in Surviving)

\* C9: pruning returns one dataset per input dataset, in the same order, with
\* the rows in the input's order and the surviving features in their
\* relative column order.
C9_PruneReturnsOrdered ==
    \A c \in 1..Len(returned) : IsPrunedFrom(returned[c], Downstream[c])

(* ------------------------------- C10 ---------------------------------- *)

NamesDiffer ==
    \/ Range(X_train.columns) # Range(X_val.columns)
    \/ Range(X_val.columns) # Range(X_test.columns)

C12_RankIdempotent ==
    [][ pc = "rerank" => ranked_lst' = ranked_lst ]_vars

\* A list with a tie whose ranked order differs from the column order has
\* been ranked a second time.
C12_Witness ==
    /\ pc = "reranked"
    /\ feature_importances_xgboost = <<0, 50, 50>>
    /\ ranked_lst = <<<<"b", 50>>, <<"c", 50>>, <<"a", 0>>>>

(* ------------------------------- C13 ---------------------------------- *)

\* The file read back label first has one row per row of the dataset, one
\* label and as many features as the dataset has columns, and every value
\* equals the dataset's.
RoundTrips(name, Ys, Xs) ==
    LET parsed == read_csv_label_first(files[name])
    IN /\ Len(parsed) = Len(Xs.rows)
       /\ \A k \in 1..Len(parsed) :
            /\ Len(parsed[k].features) = Len(Xs.columns)
            /\ parsed[k].label = Ys.rows[k][1]
            /\ parsed[k].features = Xs.rows[k]

ErrorClass(e) ==
    IF e \in {"AssertionError", "ValueError"} THEN "InvalidArgument"
    ELSE IF e = "none" THEN "none" ELSE "Other"

\* A fraction, in hundredths, that is not inside the open interval (0, 1).
OutsideOpenUnit(fraction) == fraction <= 0 \/ fraction >= 100

\* The split cell has been run to its end (normally or by an exception).
SplitRequested == X # NoFrame /\ pc \notin {"split1", "split2"}

NoSplitDatasets ==
    /\ X_train = NoFrame /\ X_val = NoFrame /\ X_test = NoFrame
    /\ Y_train = NoFrame /\ Y_val = NoFrame /\ Y_test = NoFrame

JobSubmitted ==
    /\ model # NoModel
    /\ model.latest_training_job.status # "none"

Uploaded(key, name) ==
    \E u \in 1..Len(uploads) :
        uploads[u].key = key /\ uploads[u].body = files[name]

\* C18: the stages happen in the order split, score, prune, write CSV,
\* upload, submit job, download model: scores exist only after both splits,
\* pruning starts only after both score vectors exist, the files are written
\* only after the three prune calls, a job exists only when train.csv and
\* validation.csv are written and uploaded and are the job's inputs, and the
\* model artifact is downloaded only after the job has completed.
C18_StagesInOrder ==
    /\ feature_importances_xgboost # <<>> => SplitDone
    /\ returned # <<>> => /\ feature_importances_xgboost # <<>>
                          /\ feature_importances_permutations # <<>>
    /\ DOMAIN files # {} => PruneDone
    /\ uploads # <<>> => DOMAIN files = {"train.csv", "validation.csv"}
    /\ JobSubmitted =>
          /\ DOMAIN files = {"train.csv", "validation.csv"}
          /\ Uploaded(model.latest_training_job.inputs.train, "train.csv")
          /\ Uploaded(model.latest_training_job.inputs.validation, "validation.csv")
    /\ downloaded # "none" =>
          /\ JobSubmitted
          /\ model.latest_training_job.status = "Completed"

\* The artifact of a completed job has been downloaded.
C18_Witness ==
    /\ pc = "done"
    /\ downloaded = model.model_data
    /\ model.latest_training_job.status = "Completed"
    /\ Len(uploads) = 2

(* ------------------------------- C19 ---------------------------------- *)

\* C19: when the selected model is linear-learner, the feature_dim set on
\* the estimator equals the number of feature fields of every line of the
\* written train.csv (the line's width minus the label), whatever scores the
\* prune step was given.
C19_FeatureDimMatchesCsv ==
    (model # NoModel /\ "feature_dim" \in DOMAIN model.hyperparameters) =>
        /\ model_selected = "linear-learner"
        /\ \A k \in 1..Len(files["train.csv"]) :
             model.hyperparameters.feature_dim = Len(files["train.csv"][k]) - 1

\* linear-learner hyperparameters set after a prune step that selected a
\* feature of the three-column train frame.
C19_Witness ==
    /\ model_selected = "linear-learner"
    /\ model # NoModel
    /\ "feature_dim" \in DOMAIN model.hyperparameters
    /\ model.hyperparameters.feature_dim = 3
    /\ Len(files["train.csv"]) >= 1
    /\ features_to_remove[1] # <<>>

(* ------------------------------- C17 ---------------------------------- *)

\* C17: in the distributed-training notebook each launched process has ended
\* before its consumer starts: the registry login has exited when
\* build_and_push.sh starts, and the clone has exited when estimator.fit
\* packages source_dir.
C17_LaunchedWorkCompleted ==
    /\ build_saw_login # "none" => build_saw_login = "exited"
    /\ fit_saw_clone # "none" => fit_saw_clone = "exited"

====
